---- MODULE Spec2Model ----
(***************************************************************************)
(* PgManager (src/pyneed/db/postgre.py): the connection manager's          *)
(* connect / cursor / execute / reset / close life cycle with its bounded  *)
(* retry recursion, the query builder of select, and the generator of      *)
(* batch_execute.                                                          *)
(*                                                                         *)
(* A call is run step by step on an explicit call stack, one step per      *)
(* driver interaction, so that the recursion of connect and execute is     *)
(* the recursion of the code.  The psycopg2 driver is the environment: a   *)
(* connection attempt or a statement may succeed or raise any error class. *)
(***************************************************************************)
EXTENDS Integers, Sequences, FiniteSets, TLC

VARIABLES
    connection,  \* self._connection: 0 is None, else the id of a connection object
    cursor,      \* self._cursor: NoCursor is None, else the cursor object
    reconnect,   \* self.reconnect
    last_query,  \* self.last_query ("" before the first select)
    live,        \* driver: connections opened and not closed
    stack,       \* the Python call stack of the running call, top frame last
    result,      \* how the last finished call ended
    obs,         \* observer: what the current (or last) top-level call did
    gen          \* the generator object made by the last batch_execute

vars == <<connection, cursor, reconnect, last_query, live, stack, result, obs, gen>>

-----------------------------------------------------------------------------
(* Program constants *)

LIMIT_RETRIES == 5
ConnectBackoff == 5
ExecuteBackoff == 1

(* Bounds of the model *)

MaxRows == 2       \* longest result set a statement returns
MaxList == 2       \* longest list value of a filter

-----------------------------------------------------------------------------
(* The driver's error classes, as the except clauses tell them apart *)

OperationalError == "OperationalError"
IntegrityError == "IntegrityError"
ProgrammingError == "ProgrammingError"
InterfaceError == "InterfaceError"
AttributeError == "AttributeError"

\* psycopg2.DatabaseError and its subclasses (OperationalError is one of them)
IsDatabaseError(e) == e \in {OperationalError, IntegrityError, ProgrammingError}

\* what a connection attempt can raise: an OperationalError or anything else
ConnectErrors == {OperationalError, InterfaceError}

\* what a statement can raise on a usable cursor
StatementErrors == {OperationalError, IntegrityError, InterfaceError}

RECURSIVE SeqsUpTo(_, _)
SeqsUpTo(S, n) ==
    IF n = 0 THEN {<<>>}
    ELSE LET shorter == SeqsUpTo(S, n - 1)
         IN  shorter \cup {Append(s, x) : s \in {t \in shorter : Len(t) = n - 1}, x \in S}

\* the result sets the server can return for a query: rows 1..n in the server's order
ResultSets == {[i \in 1..n |-> i] : n \in 0..MaxRows}

RawQueries == {"SELECT 1"}

-----------------------------------------------------------------------------
(* Objects *)

NoResult == [has |-> FALSE, rows |-> <<>>]

NoCursor == [id |-> 0, conn |-> 0, closed |-> FALSE, buf |-> NoResult]

\* psycopg2's cursor.closed: closed itself, or its connection is closed
CursorClosed(c) == c.closed \/ c.conn \notin live

NoFrame == [fn |-> "", pc |-> "", rc |-> 0, q |-> "", one |-> FALSE]

Frame(fn, pc) == [NoFrame EXCEPT !.fn = fn, !.pc = pc]

NoValue == [t |-> "None", v |-> <<>>]

NoResultYet == [kind |-> "none", val |-> NoValue, err |-> "", src |-> ""]

Event(ev, id, q, d) == [ev |-> ev, id |-> id, q |-> q, d |-> d, err |-> ""]

\* a connection attempt that raised err
Refused(err) == [Event("connect", 0, "", 0) EXCEPT !.err = err]

NoArgs == [table |-> "", columns |-> [isList |-> FALSE, names |-> <<>>, text |-> ""],
           filters |-> <<>>, order_by |-> "", ascending |-> TRUE, limit |-> 0,
           random |-> FALSE]

ObsOf(op, wasConnected) ==
    [op |-> op,             \* the top-level call
     again |-> FALSE,       \* it is a close() that follows a close()
     q |-> "", one |-> FALSE, args |-> NoArgs,
     wasConnected |-> wasConnected,
     nExec |-> 0,           \* statement executions made by the call
     nReset |-> 0,          \* reset() calls made by the call
     nConn |-> 0,           \* connection attempts made by the call
     nClosed |-> 0,         \* driver objects the call closed
     stmtErrs |-> {},       \* error classes its statements raised
     rows |-> <<>>,         \* result set of its last successful statement
     trail |-> <<>>]        \* driver events since its last statement (inclusive)

NewObs(op) == ObsOf(op, connection # 0)

\* a generator: not made, "created" (no code of its body has run), "suspended" at
\* the yield, or "finished"
NoGen == [st |-> "none", q |-> "", conn |-> 0, srvOpen |-> FALSE, execd |-> FALSE,
          rows |-> <<>>, pos |-> 0, out |-> <<>>, end |-> "", again |-> FALSE]

\* ids are references: a new object's id is one nothing still refers to
Min(S) == CHOOSE x \in S : \A y \in S : x <= y

TrailIds(kind) == {obs.trail[i].id : i \in {j \in DOMAIN obs.trail : obs.trail[j].ev \in kind}}

FreshConn ==
    Min((1..(Cardinality(live) + Len(obs.trail) + 4))
        \ (live \cup {connection, cursor.conn, gen.conn} \cup TrailIds({"connect", "close"})))

FreshCursor ==
    Min((1..(Len(obs.trail) + 2)) \ ({cursor.id} \cup TrailIds({"exec", "cursor"})))

-----------------------------------------------------------------------------
(* Control *)

Top == stack[Len(stack)]

Running(fn, pc) == stack # <<>> /\ Top.fn = fn /\ Top.pc = pc

\* the constructor raised: there is no object to call
Constructed == ~(obs.op = "__init__" /\ result.kind = "raise")

Idle == stack = <<>> /\ Constructed

SetTop(f) == [stack EXCEPT ![Len(stack)] = f]

Pop(s) == SubSeq(s, 1, Len(s) - 1)

\* the top frame returns: it is popped, and so is every caller that has nothing
\* left to do but return None
RECURSIVE Unwind(_)
Unwind(s) ==
    IF s # <<>> /\ s[Len(s)].pc = "ret" THEN Unwind(Pop(s)) ELSE s

Returned(s) == Unwind(Pop(s))

Value(val) == [kind |-> "ret", val |-> val, err |-> "", src |-> ""]

\* the top frame returns val: the caller of a nested call drops it
Return(val) ==
    /\ stack' = Returned(stack)
    /\ result' = IF Returned(stack) = <<>> THEN Value(val) ELSE result

\* no frame of a running call has a handler that catches what a callee raises:
\* the calls are made from inside except blocks or from unguarded code
Raise(err, src) ==
    /\ stack' = <<>>
    /\ result' = [kind |-> "raise", val |-> NoValue, err |-> err, src |-> src]

Log(o, e) == [o EXCEPT !.trail = Append(@, e),
                       !.nConn = IF e.ev = "connect" THEN @ + 1 ELSE @]

-----------------------------------------------------------------------------
(* connect: lines 19-46 *)

\* line 20: if self._connection: return
AlreadyConnected(c) == c # 0

RetryExhaustedLate(rc) == rc > LIMIT_RETRIES

\* lines 37 and 62: retry_counter >= LIMIT_RETRIES
RetryExhausted(rc) == rc >= LIMIT_RETRIES

ConnectGivesUpLate(rc) == ~reconnect \/ rc > LIMIT_RETRIES

\* line 37: the error is raised rather than retried
ConnectGivesUp(rc) == ~reconnect \/ RetryExhausted(rc)

ConnectNoop ==
    /\ Running("connect", "try")
    /\ AlreadyConnected(connection)
    /\ Return(NoValue)
    /\ UNCHANGED <<connection, cursor, reconnect, last_query, live, obs, gen>>

\* lines 25-35: psycopg2.connect succeeds
ConnectOk ==
    /\ Running("connect", "try")
    /\ ~AlreadyConnected(connection)
    /\ connection' = FreshConn
    /\ live' = live \cup {FreshConn}
    /\ obs' = Log(obs, Event("connect", FreshConn, "", 0))
    /\ Return(NoValue)
    /\ UNCHANGED <<cursor, reconnect, last_query, gen>>

\* lines 36-44: psycopg2.connect raises OperationalError
ConnectOperationalError ==
    /\ Running("connect", "try")
    /\ ~AlreadyConnected(connection)
    /\ obs' = Log(obs, Refused(OperationalError))
    /\ IF ConnectGivesUp(Top.rc)
       THEN Raise(OperationalError, "connect")
       ELSE /\ stack' = SetTop([Top EXCEPT !.rc = @ + 1, !.pc = "sleep"])
            /\ UNCHANGED result
    /\ UNCHANGED <<connection, cursor, reconnect, last_query, live, gen>>

\* lines 45-46: any other exception is raised again
ConnectOtherError ==
    /\ Running("connect", "try")
    /\ ~AlreadyConnected(connection)
    /\ \E e \in ConnectErrors \ {OperationalError} :
          /\ obs' = Log(obs, Refused(e))
          /\ Raise(e, "connect")
    /\ UNCHANGED <<connection, cursor, reconnect, last_query, live, gen>>

\* lines 43-44: time.sleep(5); self.connect(retry_counter)
ConnectSleep ==
    /\ Running("connect", "sleep")
    /\ obs' = Log(obs, Event("sleep", 0, "", ConnectBackoff))
    /\ stack' = Append(SetTop([Top EXCEPT !.pc = "ret"]),
                       [Frame("connect", "try") EXCEPT !.rc = Top.rc])
    /\ UNCHANGED <<connection, cursor, reconnect, last_query, live, result, gen>>

-----------------------------------------------------------------------------
(* cursor: lines 48-54 *)

\* lines 52-54: self._cursor = self._connection.cursor(...)
MakeCursor ==
    IF connection = 0 THEN
        /\ Raise(AttributeError, "cursor")
        /\ UNCHANGED <<cursor, obs>>
    ELSE IF connection \notin live THEN
        /\ Raise(InterfaceError, "cursor")
        /\ UNCHANGED <<cursor, obs>>
    ELSE
        /\ cursor' = [id |-> FreshCursor, conn |-> connection, closed |-> FALSE,
                      buf |-> NoResult]
        /\ obs' = Log(obs, Event("cursor", FreshCursor, "", 0))
        /\ Return(NoValue)

\* line 49: not self._cursor or self._cursor.closed
NeedsCursor(c) == c = NoCursor \/ CursorClosed(c)

\* lines 49-51, and 52-54 when there is a connection
CursorCheck ==
    /\ Running("cursor", "check")
    /\ IF ~NeedsCursor(cursor) THEN
           /\ Return(NoValue)
           /\ UNCHANGED <<cursor, obs>>
       ELSE IF connection = 0 THEN
           /\ stack' = Append(SetTop([Top EXCEPT !.pc = "make"]), Frame("connect", "try"))
           /\ UNCHANGED <<cursor, obs, result>>
       ELSE MakeCursor
    /\ UNCHANGED <<connection, reconnect, last_query, live, gen>>

\* lines 52-54 after the connect() of line 51 returned
CursorMake ==
    /\ Running("cursor", "make")
    /\ MakeCursor
    /\ UNCHANGED <<connection, reconnect, last_query, live, gen>>

-----------------------------------------------------------------------------
(* close: lines 82-89 *)

PyCloseLeak(conn, cur) ==
    [connection |-> 0, cursor |-> NoCursor, live |-> live, nClosed |-> 0, err |-> ""]

PyCloseKeep(conn, cur) ==
    [connection |-> conn,
     cursor |-> cur,
     live |-> IF conn # 0 THEN live \ {conn} ELSE live,
     nClosed |-> IF conn # 0 THEN (IF cur # NoCursor THEN 2 ELSE 1) ELSE 0,
     err |-> ""]

\* the fields, the driver's live connections and the number of driver objects closed
PyClose(conn, cur) ==
    [connection |-> 0,
     cursor |-> NoCursor,
     live |-> IF conn # 0 THEN live \ {conn} ELSE live,
     nClosed |-> IF conn # 0 THEN (IF cur # NoCursor THEN 2 ELSE 1) ELSE 0,
     err |-> ""]

DoClose(o) ==
    LET c == PyClose(connection, cursor)
    IN  /\ connection' = c.connection
        /\ cursor' = c.cursor
        /\ live' = c.live
        /\ obs' = [Log(o, Event("close", connection, "", 0)) EXCEPT
                      !.nClosed = @ + c.nClosed]

-----------------------------------------------------------------------------
(* reset: lines 77-80 *)

\* lines 78-79: self.close(); self.connect()
ResetClose ==
    /\ Running("reset", "close")
    /\ DoClose([obs EXCEPT !.nReset = @ + 1])
    /\ stack' = Append(SetTop([Top EXCEPT !.pc = "cursor"]), Frame("connect", "try"))
    /\ UNCHANGED <<reconnect, last_query, result, gen>>

\* line 80: self.cursor()
ResetCursor ==
    /\ Running("reset", "cursor")
    /\ stack' = Append(SetTop([Top EXCEPT !.pc = "ret"]), Frame("cursor", "check"))
    /\ UNCHANGED <<connection, cursor, reconnect, last_query, live, result, obs, gen>>

-----------------------------------------------------------------------------
(* __init__: lines 12-17 *)

\* line 16: self.connect()
InitConnect ==
    /\ Running("__init__", "connect")
    /\ stack' = Append(SetTop([Top EXCEPT !.pc = "cursor"]), Frame("connect", "try"))
    /\ UNCHANGED <<connection, cursor, reconnect, last_query, live, result, obs, gen>>

\* line 17: self.cursor()
InitCursor ==
    /\ Running("__init__", "cursor")
    /\ stack' = Append(SetTop([Top EXCEPT !.pc = "ret"]), Frame("cursor", "check"))
    /\ UNCHANGED <<connection, cursor, reconnect, last_query, live, result, obs, gen>>

-----------------------------------------------------------------------------
(* execute: lines 56-75 *)

\* lines 72-75: cursor.fetchone() or cursor.fetchall() on the cursor's result buffer,
\* which the fetch consumes
Fetch(buf, one) ==
    IF one
    THEN [val |-> IF buf.rows = <<>> THEN NoValue ELSE [t |-> "row", v |-> <<Head(buf.rows)>>],
          buf |-> [buf EXCEPT !.rows = IF @ = <<>> THEN <<>> ELSE Tail(@)]]
    ELSE [val |-> [t |-> "rows", v |-> buf.rows],
          buf |-> [buf EXCEPT !.rows = <<>>]]

RetriedOperationalOnly(e) == e = OperationalError

\* line 61: except (psycopg2.DatabaseError, psycopg2.OperationalError)
Retried(e) == IsDatabaseError(e)

\* what cursor.execute can raise: a closed cursor refuses every statement
Raisable(c) == IF CursorClosed(c) THEN {InterfaceError} ELSE StatementErrors

Executed(o, q) ==
    [o EXCEPT !.nExec = @ + 1, !.trail = <<Event("exec", cursor.id, q, 0)>>]

\* line 59 with self._cursor None: the attribute lookup fails, lines 70-71 raise it
ExecNoCursor ==
    /\ Running("execute", "try")
    /\ cursor = NoCursor
    /\ Raise(AttributeError, "stmt")
    /\ UNCHANGED <<connection, cursor, reconnect, last_query, live, obs, gen>>

\* lines 59-60: the statement succeeds
ExecOk ==
    /\ Running("execute", "try")
    /\ cursor # NoCursor
    /\ ~CursorClosed(cursor)
    /\ \E rs \in ResultSets :
          /\ cursor' = [cursor EXCEPT !.buf = [has |-> TRUE, rows |-> rs]]
          /\ obs' = [Executed(obs, Top.q) EXCEPT !.rows = rs]
    /\ stack' = SetTop([Top EXCEPT !.pc = "fetch"])
    /\ UNCHANGED <<connection, reconnect, last_query, live, result, gen>>

\* lines 61-66: the statement raises an error of the first except clause
ExecDatabaseError ==
    /\ Running("execute", "try")
    /\ cursor # NoCursor
    /\ \E e \in {x \in Raisable(cursor) : Retried(x)} :
          /\ cursor' = [cursor EXCEPT !.buf = NoResult]
          /\ obs' = [Executed(obs, Top.q) EXCEPT !.stmtErrs = @ \cup {e}]
          /\ IF RetryExhausted(Top.rc)
             THEN Raise(e, "stmt")
             ELSE /\ stack' = SetTop([Top EXCEPT !.rc = @ + 1, !.pc = "sleep"])
                  /\ UNCHANGED result
    /\ UNCHANGED <<connection, reconnect, last_query, live, gen>>

\* lines 70-71: any other exception is raised again
ExecOtherError ==
    /\ Running("execute", "try")
    /\ cursor # NoCursor
    /\ \E e \in {x \in Raisable(cursor) : ~Retried(x)} :
          /\ cursor' = [cursor EXCEPT !.buf = NoResult]
          /\ obs' = [Executed(obs, Top.q) EXCEPT !.stmtErrs = @ \cup {e}]
          /\ Raise(e, "stmt")
    /\ UNCHANGED <<connection, reconnect, last_query, live, gen>>

ExecSleepNone ==
    /\ Running("execute", "sleep")
    /\ stack' = Append(SetTop([Top EXCEPT !.pc = "recurse"]), Frame("reset", "close"))
    /\ UNCHANGED <<connection, cursor, reconnect, last_query, live, result, obs, gen>>

\* lines 67-68: time.sleep(1); self.reset()
ExecSleep ==
    /\ Running("execute", "sleep")
    /\ obs' = Log(obs, Event("sleep", 0, "", ExecuteBackoff))
    /\ stack' = Append(SetTop([Top EXCEPT !.pc = "recurse"]), Frame("reset", "close"))
    /\ UNCHANGED <<connection, cursor, reconnect, last_query, live, result, gen>>

\* line 69: self.execute(query, retry_counter), is_one left at its default
ExecRecurse ==
    /\ Running("execute", "recurse")
    /\ stack' = Append(SetTop([Top EXCEPT !.pc = "fetch"]),
                       [Frame("execute", "try") EXCEPT !.rc = Top.rc, !.q = Top.q])
    /\ UNCHANGED <<connection, cursor, reconnect, last_query, live, result, obs, gen>>

\* lines 72-75
ExecFetch ==
    /\ Running("execute", "fetch")
    /\ IF cursor = NoCursor THEN
           /\ Raise(AttributeError, "fetch")
           /\ UNCHANGED cursor
       ELSE IF CursorClosed(cursor) THEN
           /\ Raise(InterfaceError, "fetch")
           /\ UNCHANGED cursor
       ELSE IF ~cursor.buf.has THEN
           /\ Raise(ProgrammingError, "fetch")
           /\ UNCHANGED cursor
       ELSE
           /\ cursor' = [cursor EXCEPT !.buf = Fetch(cursor.buf, Top.one).buf]
           /\ Return(Fetch(cursor.buf, Top.one).val)
    /\ UNCHANGED <<connection, reconnect, last_query, live, obs, gen>>

-----------------------------------------------------------------------------
(* select: lines 91-163.  Python values carry their type, which the code inspects *)

PyStrV(s) == [t |-> "str", s |-> s, n |-> 0, b |-> FALSE, xs |-> <<>>]
PyNone == [t |-> "NoneType", s |-> "", n |-> 0, b |-> FALSE, xs |-> <<>>]
PyInt(n) == [t |-> "int", s |-> "", n |-> n, b |-> FALSE, xs |-> <<>>]
PyBool(b) == [t |-> "bool", s |-> "", n |-> 0, b |-> b, xs |-> <<>>]
PyList(xs) == [t |-> "list", s |-> "", n |-> 0, b |-> FALSE, xs |-> xs]
PyTuple(xs) == [t |-> "tuple", s |-> "", n |-> 0, b |-> FALSE, xs |-> xs]

\* the elements of a list or tuple value
EStr(s) == [t |-> "str", s |-> s, n |-> 0, b |-> FALSE]
EInt(n) == [t |-> "int", s |-> "", n |-> n, b |-> FALSE]

\* str(x)
PyStr(x) ==
    CASE x.t = "str" -> x.s
      [] x.t = "int" -> ToString(x.n)
      [] x.t = "bool" -> (IF x.b THEN "True" ELSE "False")
      [] OTHER -> "None"

\* sep.join(parts)
RECURSIVE Join(_, _)
Join(parts, sep) ==
    IF parts = <<>> THEN ""
    ELSE IF Len(parts) = 1 THEN parts[1]
    ELSE parts[1] \o sep \o Join(Tail(parts), sep)

\* isinstance(value, Iterable), for a value that is neither a str nor None
IsIterable(v) == v.t \in {"list", "tuple"}

\* lines 136-145: the value as it is written into the fragment
RenderValue(v) ==
    IF v.t = "str" THEN "'" \o v.s \o "'"
    ELSE IF v.t = "NoneType" THEN "null"
    ELSE IF IsIterable(v) THEN "(" \o Join([i \in DOMAIN v.xs |-> PyStr(v.xs[i])], ",") \o ")"
    ELSE PyStr(v)

\* lines 130-147: the inner loop appends one fragment per column to all_filters
RECURSIVE ConditionsLoop(_, _, _, _)
ConditionsLoop(filter_type, conds, j, all_filters) ==
    IF j > Len(conds) THEN all_filters
    ELSE ConditionsLoop(filter_type, conds, j + 1,
            Append(all_filters,
                   conds[j].column \o " " \o filter_type \o " " \o RenderValue(conds[j].value)))

\* lines 127-150: the outer loop; query_filters is joined anew after each operator
RECURSIVE FiltersLoop(_, _, _, _)
FiltersLoop(filters, i, all_filters, query_filters) ==
    IF i > Len(filters) THEN query_filters
    ELSE LET af == ConditionsLoop(filters[i].type, filters[i].conds, 1, all_filters)
         IN  FiltersLoop(filters, i + 1, af, Join(af, " AND "))

QueryFiltersPerOperator(filters) ==
    IF filters = <<>> THEN ""
    ELSE Join(ConditionsLoop(filters[Len(filters)].type, filters[Len(filters)].conds, 1, <<>>),
              " AND ")

\* lines 125-150
QueryFilters(filters) == FiltersLoop(filters, 1, <<>>, "")

\* lines 155-159: the options, appended in this order
Options(query, a) ==
    LET q1 == IF a.random THEN query \o " ORDER BY random()" ELSE query
        q2 == IF a.order_by # "" THEN q1 \o " ORDER BY " \o a.order_by ELSE q1
        q3 == IF a.ascending = FALSE THEN q2 \o " DESC" ELSE q2
    IN  IF a.limit # 0 THEN q3 \o " LIMIT " \o ToString(a.limit) ELSE q3

\* lines 118-122
BaseQuery(a) ==
    "SELECT " \o (IF a.columns.isList THEN Join(a.columns.names, ",") ELSE a.columns.text)
        \o " FROM " \o a.table

\* lines 118-159
BuildQuery(a) ==
    LET query == BaseQuery(a)
        query_filters == QueryFilters(a.filters)
    IN  Options(IF query_filters # "" THEN query \o " WHERE " \o query_filters ELSE query, a)

-----------------------------------------------------------------------------
(* The arguments the caller passes to select *)

Operators == {"=", "in"}
Columns == {"a", "b"}

\* the sequences without repetition over S: the keys of a dict in insertion order
RECURSIVE Orders(_)
Orders(S) ==
    {<<>>} \cup UNION {{<<x>> \o s : s \in Orders(S \ {x})} : x \in S}

Elements == {EInt(1), EStr("x")}

ScalarValues == {PyStrV("bob"), PyNone, PyInt(1), PyInt(5), PyBool(TRUE)}

IterableValues ==
    {PyList(xs) : xs \in SeqsUpTo(Elements, MaxList)}
        \cup {PyTuple(<<EInt(1), EInt(2)>>), PyList(<<EInt(1), EInt(2), EInt(3)>>)}

\* the values of the mappings with several entries
CoreValues == {PyStrV("bob"), PyNone, PyList(<<EInt(1), EInt(2)>>)}

Conditions(cols, values) ==
    UNION {{[i \in DOMAIN o |-> [column |-> o[i], value |-> f[i]]] :
                f \in [DOMAIN o -> values]} : o \in Orders(cols)}

FiltersOver(ops, cols, values) ==
    UNION {{[i \in DOMAIN o |-> [type |-> o[i], conds |-> f[i]]] :
                f \in [DOMAIN o -> Conditions(cols, values)]} : o \in Orders(ops)}

\* every value in a mapping of one entry, and every shape of mapping over the core values
FilterInputs ==
    FiltersOver({"="}, {"a"}, ScalarValues \cup IterableValues)
        \cup FiltersOver(Operators, Columns, CoreValues)

\* the mappings of the docstring (line 108) and of the specification's examples
OneFilter(op, column, value) ==
    <<[type |-> op, conds |-> <<[column |-> column, value |-> value]>>]>>

ExampleFilters ==
    {OneFilter("in", "id", PyList(<<EInt(1), EInt(2), EInt(3)>>)),
     OneFilter("is", "title", PyNone),
     OneFilter("=", "name", PyStrV("bob")),
     OneFilter("is", "title", PyNone) \o OneFilter("=", "owner", PyStrV("affinity"))}

AllColumns == [isList |-> FALSE, names |-> <<>>, text |-> "*"]

\* select(table, filters=f): the defaults of lines 95-100
DefaultArgs(f) ==
    [table |-> "t", columns |-> AllColumns, filters |-> f, order_by |-> "",
     ascending |-> TRUE, limit |-> 1, random |-> FALSE]

SelectArgs ==
    {DefaultArgs(f) : f \in FilterInputs \cup ExampleFilters}
        \cup {[DefaultArgs(f) EXCEPT !.limit = 5] : f \in FilterInputs}
        \cup {[DefaultArgs(f) EXCEPT
                  !.columns = [isList |-> TRUE, names |-> <<"a", "b">>, text |-> ""],
                  !.order_by = "a", !.ascending = FALSE, !.limit = 0, !.random = TRUE] :
              f \in FiltersOver({"="}, {"a"}, ScalarValues \cup IterableValues)}

\* the select calls of the life-cycle specification
FewSelectArgs == {[DefaultArgs(OneFilter("=", "a", PyInt(1))) EXCEPT !.limit = 5]}

-----------------------------------------------------------------------------
(* The caller *)

Called(fn, pc, o) ==
    /\ Idle
    /\ stack' = <<Frame(fn, pc)>>
    /\ result' = NoResultYet
    /\ obs' = o

CallConnect ==
    /\ Called("connect", "try", NewObs("connect"))
    /\ UNCHANGED <<connection, cursor, reconnect, last_query, live, gen>>

CallCursor ==
    /\ Called("cursor", "check", NewObs("cursor"))
    /\ UNCHANGED <<connection, cursor, reconnect, last_query, live, gen>>

CallReset ==
    /\ Called("reset", "close", NewObs("reset"))
    /\ UNCHANGED <<connection, cursor, reconnect, last_query, live, gen>>

\* close(): lines 82-89, which call nothing that can fail over
CallClose ==
    /\ Idle
    /\ DoClose([NewObs("close") EXCEPT !.again = obs.op = "close"])
    /\ stack' = <<>>
    /\ result' = IF PyClose(connection, cursor).err = ""
                 THEN Value(NoValue)
                 ELSE [kind |-> "raise", val |-> NoValue,
                       err |-> PyClose(connection, cursor).err, src |-> "close"]
    /\ UNCHANGED <<reconnect, last_query, gen>>

\* execute(query, is_one=one)
CallExecute(q, one) ==
    /\ Idle
    /\ stack' = <<[Frame("execute", "try") EXCEPT !.q = q, !.one = one]>>
    /\ result' = NoResultYet
    /\ obs' = [NewObs("execute") EXCEPT !.q = q, !.one = one]
    /\ UNCHANGED <<connection, cursor, reconnect, last_query, live, gen>>

\* select(...): lines 117-163, the query is built, kept and handed to execute
Select(a) ==
    /\ Idle
    /\ last_query' = BuildQuery(a)
    /\ stack' = <<[Frame("execute", "try") EXCEPT !.q = BuildQuery(a)]>>
    /\ result' = NoResultYet
    /\ obs' = [NewObs("select") EXCEPT !.q = BuildQuery(a), !.args = a]
    /\ UNCHANGED <<connection, cursor, reconnect, live, gen>>

\* the caller sets manager.reconnect
SetReconnect(b) ==
    /\ Idle
    /\ reconnect # b
    /\ reconnect' = b
    /\ obs' = NewObs("reconnect")
    /\ result' = Value(NoValue)
    /\ UNCHANGED <<connection, cursor, last_query, live, stack, gen>>

-----------------------------------------------------------------------------
(* batch_execute: lines 165-170, a generator function *)

\* calling a generator function runs none of its body
NewGenerator(q) == [NoGen EXCEPT !.st = "created", !.q = q]

\* the with block is left: the server-side cursor is closed, the generator is over
Finished(g, end) ==
    [g EXCEPT !.st = "finished", !.end = end, !.srvOpen = FALSE, !.conn = 0]

\* lines 169-170: the next row is yielded, or the loop ends and the with block is left
Yielded(g) ==
    IF g.pos < Len(g.rows)
    THEN [g EXCEPT !.st = "suspended", !.pos = @ + 1, !.out = Append(@, g.rows[g.pos + 1])]
    ELSE Finished(g, "exhausted")

Restarted(g) == Yielded([g EXCEPT !.pos = 0, !.again = TRUE])

\* next() on a finished generator raises StopIteration and runs nothing
Exhausted(g) == [g EXCEPT !.again = TRUE]

Iterated(g, err) ==
    /\ Idle
    /\ gen' = g
    /\ obs' = NewObs("next")
    /\ result' = IF err = "" THEN Value(NoValue)
                 ELSE [kind |-> "raise", val |-> NoValue, err |-> err, src |-> "next"]
    /\ UNCHANGED <<connection, cursor, reconnect, last_query, live, stack>>

BatchExecute ==
    /\ Idle
    /\ \E q \in RawQueries : gen' = NewGenerator(q)
    /\ obs' = NewObs("batch_execute")
    /\ result' = Value(NoValue)
    /\ UNCHANGED <<connection, cursor, reconnect, last_query, live, stack>>

\* line 166 with self._connection None
GenStartNoConnection ==
    /\ gen.st = "created"
    /\ connection = 0
    /\ Iterated(Finished(gen, "error"), AttributeError)

\* lines 166-168: the server-side cursor is opened, the statement raises
GenStartError ==
    /\ gen.st = "created"
    /\ connection \in live
    /\ \E e \in StatementErrors :
          Iterated(Finished([gen EXCEPT !.execd = TRUE], "error"), e)

\* lines 166-170: the statement succeeds, iteration reaches the first yield or ends
GenStartOk ==
    /\ gen.st = "created"
    /\ connection \in live
    /\ \E rs \in ResultSets :
          LET g == Yielded([gen EXCEPT !.execd = TRUE, !.conn = connection,
                                       !.srvOpen = TRUE, !.rows = rs])
          IN  Iterated(g, IF g.st = "finished" THEN "StopIteration" ELSE "")

\* lines 169-170: the generator is resumed
GenResume ==
    /\ gen.st = "suspended"
    /\ gen.conn \in live
    /\ Iterated(Yielded(gen), IF Yielded(gen).st = "finished" THEN "StopIteration" ELSE "")

\* line 169: fetching from the server fails
GenResumeError ==
    /\ gen.st = "suspended"
    /\ gen.conn \in live
    /\ \E e \in StatementErrors : Iterated(Finished(gen, "error"), e)

\* line 169 after close() or reset() closed the connection of the server-side cursor
GenResumeClosed ==
    /\ gen.st = "suspended"
    /\ gen.conn \notin live
    /\ Iterated(Finished(gen, "error"), InterfaceError)

GenAgain ==
    /\ gen.st = "finished"
    /\ Iterated(Exhausted(gen), "StopIteration")

-----------------------------------------------------------------------------
(* Specifications *)

\* PgManager() is being constructed: __init__ has set the fields (lines 13-15)
Init ==
    /\ connection = 0
    /\ cursor = NoCursor
    /\ reconnect = TRUE
    /\ last_query = ""
    /\ live = {}
    /\ stack = <<Frame("__init__", "connect")>>
    /\ result = NoResultYet
    /\ obs = ObsOf("__init__", FALSE)
    /\ gen = NoGen

ConnectSteps ==
    \/ ConnectNoop
    \/ ConnectOk
    \/ ConnectOperationalError
    \/ ConnectOtherError
    \/ ConnectSleep

LifeSteps ==
    \/ InitConnect
    \/ InitCursor
    \/ ConnectSteps
    \/ CursorCheck
    \/ CursorMake
    \/ ResetClose
    \/ ResetCursor

ExecSteps ==
    \/ ExecNoCursor
    \/ ExecOk
    \/ ExecDatabaseError
    \/ ExecOtherError
    \/ ExecSleep
    \/ ExecRecurse
    \/ ExecFetch

BatchSteps ==
    \/ BatchExecute
    \/ GenStartNoConnection
    \/ GenStartError
    \/ GenStartOk
    \/ GenResume
    \/ GenResumeError
    \/ GenResumeClosed
    \/ GenAgain

Next ==
    \/ LifeSteps
    \/ ExecSteps
    \/ CallConnect
    \/ CallCursor
    \/ CallReset
    \/ CallClose
    \/ \E q \in RawQueries, one \in BOOLEAN : CallExecute(q, one)
    \/ \E a \in FewSelectArgs : Select(a)
    \/ \E b \in BOOLEAN : SetReconnect(b)

Spec == Init /\ [][Next]_vars

\* a running call keeps running: the interpreter takes the next step of the
\* frame on top, and every driver call (connect_timeout=30 at line 31) and every
\* sleep comes back
SpecLive == Spec /\ WF_vars(LifeSteps \/ ExecSteps)

\* the generator of batch_execute, with the calls that open and close connections
NextBatch ==
    \/ LifeSteps
    \/ CallConnect
    \/ CallCursor
    \/ CallReset
    \/ CallClose
    \/ BatchSteps

SpecBatch == Init /\ [][NextBatch]_vars

\* PgManager() has returned: the state Spec reaches when lines 16-17 succeed at once
InitBuild ==
    /\ connection = 1
    /\ cursor = [NoCursor EXCEPT !.id = 1, !.conn = 1]
    /\ reconnect = TRUE
    /\ last_query = ""
    /\ live = {1}
    /\ stack = <<>>
    /\ result = Value(NoValue)
    /\ obs = [ObsOf("__init__", FALSE) EXCEPT
                 !.trail = <<Event("connect", 1, "", 0), Event("cursor", 1, "", 0)>>]
    /\ gen = NoGen

\* the first select of a manager, with any of the arguments, on a server that answers
NextBuild ==
    \/ (last_query = "" /\ \E a \in SelectArgs : Select(a))
    \/ ExecOk
    \/ ExecFetch

SpecBuild == InitBuild /\ [][NextBuild]_vars

\* Spec reaches the initial state of SpecBuild (violated as an invariant of Spec)
InitBuildNotReached == ~InitBuild

-----------------------------------------------------------------------------
(* Properties *)

Done == stack = <<>>

Raised == Done /\ result.kind = "raise"

Attempts(t) == {i \in DOMAIN t : t[i].ev = "connect"}

\* C1: with reconnect enabled, a connect() call that surfaces an error after only
\* OperationalErrors has made exactly LIMIT_RETRIES + 1 connection attempts, and an
\* execute() call that surfaces a statement's error after only OperationalErrors
\* (every reset in between succeeded) has executed the statement exactly
\* LIMIT_RETRIES + 1 times.
C1_RetryBound ==
    /\ (/\ Raised
        /\ obs.op = "connect"
        /\ reconnect
        /\ \A i \in Attempts(obs.trail) : obs.trail[i].err = OperationalError)
       => Cardinality(Attempts(obs.trail)) = LIMIT_RETRIES + 1
    /\ (/\ Raised
        /\ obs.op = "execute"
        /\ result.src = "stmt"
        /\ obs.stmtErrs = {OperationalError})
       => obs.nExec = LIMIT_RETRIES + 1

C1_Witness ==
    /\ Raised
    /\ obs.op = "execute"
    /\ result.src = "stmt"
    /\ result.err = OperationalError
    /\ obs.stmtErrs = {OperationalError}
    /\ obs.nExec = LIMIT_RETRIES + 1
    /\ reconnect

\* the same for connect(): six refused attempts, then the error
C1_WitnessConnect ==
    /\ Raised
    /\ obs.op = "connect"
    /\ reconnect
    /\ Cardinality(Attempts(obs.trail)) = LIMIT_RETRIES + 1
    /\ \A i \in Attempts(obs.trail) : obs.trail[i].err = OperationalError

\* what execute(query, is_one) returns for the rows of a result set
RowsValue(rows, one) ==
    IF one
    THEN (IF rows = <<>> THEN NoValue ELSE [t |-> "row", v |-> <<rows[1]>>])
    ELSE [t |-> "rows", v |-> rows]

\* C2: an execute(query, is_one) call that ends in a successful execution, on the
\* first attempt or after retries, returns the rows of that execution: the first
\* row when is_one, else all rows.
C2_ReturnsRows ==
    (Done /\ obs.op = "execute" /\ result.kind = "ret")
        => result.val = RowsValue(obs.rows, obs.one)

\* the part of C2 the code keeps: a call that succeeds at its first attempt
C2_FirstAttemptReturnsRows ==
    (Done /\ obs.op = "execute" /\ result.kind = "ret" /\ obs.nExec = 1)
        => result.val = RowsValue(obs.rows, obs.one)

\* C3 as stated: once a statement of an execute() call has failed with a
\* non-operational driver error, the call is over and has raised: no retry, no
\* sleep, no reset follows.
C3_NonOperationalNeverRetried ==
    (obs.op = "execute" /\ obs.stmtErrs \cap {IntegrityError, InterfaceError} # {})
        => (Raised /\ obs.nExec = 1)

\* C3 amended: an error that is not a psycopg2.DatabaseError (an InterfaceError,
\* the AttributeError of an unset cursor) is surfaced by the attempt that raised it,
\* with no sleep and no reset after it; a DatabaseError of any kind, a constraint
\* violation as much as an OperationalError, is retried and is surfaced only by
\* the execution number LIMIT_RETRIES + 1.
C3_OnlyNonDatabaseErrorsSurfaceAtOnce ==
    /\ (obs.op = "execute" /\ InterfaceError \in obs.stmtErrs)
           => (Raised /\ result.err = InterfaceError /\ result.src = "stmt"
               /\ Len(obs.trail) = 1 /\ obs.trail[1].ev = "exec")
    /\ (Raised /\ obs.op = "execute" /\ result.err = AttributeError /\ result.src = "stmt")
           => (obs.nExec = 0 /\ obs.trail = <<>>)
    /\ (Raised /\ obs.op = "execute" /\ result.src = "stmt"
            /\ result.err \in {OperationalError, IntegrityError})
           => obs.nExec = LIMIT_RETRIES + 1

C3_Witness ==
    /\ Raised
    /\ obs.op = "execute"
    /\ result.err = InterfaceError
    /\ obs.stmtErrs = {IntegrityError, InterfaceError}
    /\ obs.nExec = 2

\* C4: an execute() or select() issued after close() first establishes a fresh
\* connection and cursor and runs the statement on them, rather than failing on
\* the unset cursor.
C4_ExecuteAfterCloseReconnects ==
    (Done /\ obs.op \in {"execute", "select"} /\ ~obs.wasConnected)
        => (obs.nExec >= 1 /\ ~(result.kind = "raise" /\ result.err = AttributeError))

\* C5: when connect() or execute() surfaces an error, the manager is DISCONNECTED:
\* no connection, no cursor, and the connection it held is closed.
C5_ErrorLeavesDisconnected ==
    (Raised /\ obs.op \in {"connect", "execute"})
        => (connection = 0 /\ cursor = NoCursor /\ live = {})

\* C6: a manager has at most one live connection, the one it holds: a connection is
\* opened only when the one held before has been closed.
C6_AtMostOneLiveConnection ==
    /\ Cardinality(live) <= 1
    /\ live \subseteq {connection}

C6_Witness ==
    /\ obs.op = "execute"
    /\ obs.nExec >= 2
    /\ Cardinality(live) = 1
    /\ \E i \in DOMAIN obs.trail : obs.trail[i].ev = "close" /\ obs.trail[i].id # 0

\* C7: close() never raises and leaves the manager DISCONNECTED (connection and
\* cursor unset), and a close() that follows a close() closes nothing.
C7_CloseIdempotent ==
    (Done /\ obs.op = "close")
        => /\ result.kind = "ret"
           /\ connection = 0
           /\ cursor = NoCursor
           /\ live = {}
           /\ obs.again => obs.nClosed = 0

C7_Witness ==
    /\ Done
    /\ obs.op = "close"
    /\ obs.again
    /\ result.kind = "ret"

\* the rendering of a value that C8 states
StatedValue(v) ==
    CASE v.t = "str" -> "'" \o v.s \o "'"
      [] v.t = "NoneType" -> "null"
      [] v.t \in {"list", "tuple"} ->
            "(" \o Join([i \in DOMAIN v.xs |-> PyStr(v.xs[i])], ",") \o ")"
      [] OTHER -> PyStr(v)

\* one fragment per (operator, column, value), operators first, then columns
RECURSIVE StatedFragments(_)
StatedFragments(filters) ==
    IF filters = <<>> THEN <<>>
    ELSE [j \in DOMAIN filters[1].conds |->
             filters[1].conds[j].column \o " " \o filters[1].type \o " "
                 \o StatedValue(filters[1].conds[j].value)]
         \o StatedFragments(Tail(filters))

StatedQuery(a) ==
    Options(IF StatedFragments(a.filters) = <<>>
            THEN BaseQuery(a)
            ELSE BaseQuery(a) \o " WHERE " \o Join(StatedFragments(a.filters), " AND "),
            a)

\* C8: the query select() keeps and runs has, as its WHERE clause, the fragments
\* '<column> <operator> <value>' of the filters in insertion order joined by
\* ' AND ', a string value in single quotes, None as null, another iterable as a
\* parenthesized comma-joined list, another scalar in its plain string form; with
\* no fragment there is no WHERE clause.  The examples of the docstring and of the
\* specification come out as written there.
C8_WhereClause ==
    obs.op = "select" =>
        /\ last_query = StatedQuery(obs.args)
        /\ obs.q = last_query
        /\ obs.args.filters = <<>> => last_query = Options(BaseQuery(obs.args), obs.args)
        /\ obs.args = DefaultArgs(<<>>) => last_query = "SELECT * FROM t LIMIT 1"
        /\ obs.args = [DefaultArgs(OneFilter("=", "a", PyInt(1))) EXCEPT !.limit = 5]
              => last_query = "SELECT * FROM t WHERE a = 1 LIMIT 5"
        /\ obs.args = DefaultArgs(OneFilter("in", "id", PyList(<<EInt(1), EInt(2), EInt(3)>>)))
              => last_query = "SELECT * FROM t WHERE id in (1,2,3) LIMIT 1"
        /\ obs.args = DefaultArgs(OneFilter("=", "name", PyStrV("bob")))
              => last_query = "SELECT * FROM t WHERE name = 'bob' LIMIT 1"
        /\ obs.args = DefaultArgs(OneFilter("is", "title", PyNone)
                                    \o OneFilter("=", "owner", PyStrV("affinity")))
              => last_query = "SELECT * FROM t WHERE title is null AND owner = 'affinity' LIMIT 1"

C8_Witness ==
    /\ Done
    /\ obs.op = "select"
    /\ result.kind = "ret"
    /\ Len(obs.args.filters) = 2
    /\ Len(obs.args.filters[1].conds) = 2
    /\ Len(obs.args.filters[2].conds) = 2
    /\ obs.args.filters[2].conds[2].value.t = "list"
    /\ last_query = "SELECT * FROM t WHERE b = 'bob' AND a = null AND a in (1,2) AND b in (1,2) LIMIT 5"

\* C9: calling batch_execute runs nothing; the rows yielded so far are the first
\* rows of the result set in the server's order, each once; a generator that ran
\* out has yielded the whole result set and closed its server-side cursor, and
\* iterating it again yields nothing more.
C9_BatchIsLazyAndSinglePass ==
    /\ gen.st = "created" => (~gen.execd /\ ~gen.srvOpen /\ gen.out = <<>>)
    /\ gen.st = "suspended" => (gen.srvOpen /\ gen.out = SubSeq(gen.rows, 1, gen.pos))
    /\ (gen.st = "finished" /\ gen.end = "exhausted") => (gen.out = gen.rows /\ ~gen.srvOpen)
    /\ gen.again => gen.st = "finished"

C9_Witness ==
    /\ gen.st = "finished"
    /\ gen.end = "exhausted"
    /\ gen.again
    /\ Len(gen.rows) = MaxRows
    /\ gen.out = gen.rows

\* the connection attempts of one connect(): refused attempts, a sleep of 5 after
\* each, and a last attempt that succeeds
ConnectPhase(c) ==
    /\ c # <<>>
    /\ c[Len(c)].ev = "connect"
    /\ c[Len(c)].id # 0
    /\ \A i \in 1..(Len(c) - 1) :
          IF i % 2 = 1
          THEN c[i].ev = "connect" /\ c[i].id = 0 /\ c[i].err = OperationalError
          ELSE c[i].ev = "sleep" /\ c[i].d = 5

\* the events from a failed statement to its retry
RetryPath(t) ==
    /\ Len(t) >= 5
    /\ t[1].ev = "exec"
    /\ t[2].ev = "sleep"
    /\ t[2].d = 1
    /\ t[3].ev = "close"
    /\ t[3].id # 0
    /\ ConnectPhase(SubSeq(t, 4, Len(t) - 1))
    /\ t[Len(t)].ev = "cursor"
    /\ Cardinality({i \in DOMAIN t : t[i].ev = "sleep" /\ t[i].d = 1}) = 1
    /\ Cardinality({i \in DOMAIN t : t[i].ev = "close"}) = 1

\* a connection attempt that is a retry follows a sleep of 5 that follows a refusal
ConnectRetriesSleep(t) ==
    \A i \in DOMAIN t :
        (t[i].ev = "connect" /\ i > 1 /\ t[i - 1].ev # "close")
            => /\ t[i - 1].ev = "sleep"
               /\ t[i - 1].d = 5
               /\ i > 2
               /\ t[i - 2].ev = "connect"
               /\ t[i - 2].err = OperationalError

\* C10: a statement execution that is a retry follows, in this order, one sleep
\* of 1, one close, the connect and the cursor of one reset, with nothing else in
\* between; it runs the query string of the failed execution on the cursor that
\* reset created; connect() sleeps 5 before each of its retries.
C10_RetryAfterBackoffAndReset ==
    /\ [](ConnectRetriesSleep(obs.trail))
    /\ [][(obs'.nExec = obs.nExec + 1 /\ obs.nExec >= 1)
             => /\ RetryPath(obs.trail)
                /\ obs'.trail[1].q = obs.trail[1].q
                /\ obs'.trail[1].id = obs.trail[Len(obs.trail)].id
                /\ cursor.id = obs.trail[Len(obs.trail)].id
                /\ cursor.conn = obs.trail[Len(obs.trail) - 1].id
                /\ cursor.conn \in live]_vars

\* an execute() that was retried twice, the reset of the second retry having needed
\* a retry of connect()
C10_Witness ==
    /\ Running("execute", "try")
    /\ Top.rc = 2
    /\ obs.nExec = 2
    /\ RetryPath(obs.trail)
    /\ Len(obs.trail) = 7

\* the call in progress, or the last one made, is an execute() that no other
\* execute() made: the caller's, or the one select() makes at line 163
ExecuteCall == obs.op \in {"execute", "select"}

\* the counts of one execute() call, while it runs and when it is over
ExecuteBounds ==
    /\ obs.nExec <= 6
    /\ obs.nReset <= 5
    /\ obs.nConn <= 30
    /\ obs.nReset \in {n \in {obs.nExec - 1, obs.nExec} : n >= 0}
    /\ Cardinality(Attempts(obs.trail)) <= 6

\* a running connect() has refused attempts of its own reset only in its counter
CounterStartsAtZero ==
    (~Done /\ Top.fn = "connect" /\ Top.pc = "try")
        => /\ Top.rc = Cardinality(Attempts(obs.trail))
           /\ Top.rc <= 5

\* connect() raised inside a reset: the refused attempt is the last thing the call
\* did, and no statement ran after that reset
ConnectErrorEndsCall ==
    (Raised /\ result.src = "connect")
        => /\ obs.trail # <<>>
           /\ obs.trail[Len(obs.trail)] = Refused(result.err)
           /\ obs.nReset >= 1
           /\ obs.nExec = obs.nReset
           /\ (reconnect /\ result.err = "OperationalError")
                 => /\ Cardinality(Attempts(obs.trail)) = 6
                    /\ \A i \in Attempts(obs.trail) :
                          obs.trail[i].err = "OperationalError"

\* C11: whatever statements and connection attempts fail, one top-level execute()
\* call ends, by returning or raising, after at most LIMIT_RETRIES + 1 = 6
\* statement executions and at most LIMIT_RETRIES = 5 resets; the connect() of
\* each reset counts its retries from 0, so that the call makes at most
\* LIMIT_RETRIES * (LIMIT_RETRIES + 1) = 30 connection attempts; and an error that
\* connect() raises inside a reset, its retries exhausted, ends the call at once.
C11_ExecuteTerminatesWithinBounds ==
    /\ [](ExecuteCall => (ExecuteBounds /\ CounterStartsAtZero /\ ConnectErrorEndsCall))
    /\ (ExecuteCall /\ ~Done) ~> Done

\* the fifth reset of an execute() call fails in connect() at the thirtieth
\* connection attempt of the call
C11_Witness ==
    /\ Raised
    /\ obs.op = "execute"
    /\ result.src = "connect"
    /\ result.err = OperationalError
    /\ reconnect
    /\ obs.nExec = 5
    /\ obs.nReset = 5
    /\ obs.nConn = 30

====
